---- MODULE Spec2Model ----
(***************************************************************************)
(* Model of the beacon backend resolvers (src/graphql/resolvers.js), the   *)
(* user schema (src/models/user.js) and the server's pubsub wiring.        *)
(*                                                                         *)
(* A resolver is an async function: it runs atomically between two awaits  *)
(* and other calls interleave at the awaits.  Each resolver is therefore   *)
(* one action per await-delimited step, a step being the resolution of the *)
(* awaited store operation together with the synchronous code after it.    *)
(* Documents are identified by their position in their collection (the     *)
(* store's natural order), ids are compared by value, and save() writes    *)
(* the modified paths of the document (an array push is a push on the      *)
(* stored array, a field assignment a set of the stored field).            *)
(***************************************************************************)
EXTENDS Integers, Sequences, FiniteSets, TLC

VARIABLES users, beacons, landmarks, calls, published, subs, now

vars == <<users, beacons, landmarks, calls, published, subs, now>>

----------------------------------------------------------------------------
(* Bounds *)

MaxCalls == 2
MaxBeacons == 2
MaxSubs == 1
MaxTime == 1
MaxUsers == 2

(* Input domains *)
UserIds == {1, 2}
BeaconIds == 1..MaxBeacons
Shortcodes == {"AAAAAA", "BBBBBB"}
Locations == {2}
Expiries == {0, 1}
Emails == {"a@b.com", "c@d.com"}
Passwords == {"right", "wrong"}

NoUser == 0
NoBeacon == 0
NoLocation == 0
NoLandmark == 0
NoEmail == ""
NoPassword == ""

----------------------------------------------------------------------------
(* Generic helpers *)

Range(s) == {s[i] : i \in 1..Len(s)}

Count(x, s) == Cardinality({i \in 1..Len(s) : s[i] = x})

Min(S) == CHOOSE x \in S : \A y \in S : x <= y

----------------------------------------------------------------------------
(* Store *)

\* Beacon.findById(id): the document with that id, or null
findById(id) == IF id \in 1..Len(beacons) THEN id ELSE NoBeacon

\* Beacon.findOne({ shortcode }): the first document, in the store's natural
\* order, whose shortcode matches; the query has no other condition
findOneShortcode(shortcode) ==
    LET hits == {b \in 1..Len(beacons) : beacons[b].shortcode = shortcode}
    IN  IF hits = {} THEN NoBeacon ELSE Min(hits)

\* { expiresAt: { $gte: new Date() } }
active(b) == beacons[b].expiresAt >= now

----------------------------------------------------------------------------
(* Event bus and subscription filters *)

\* the topic each subscription's asyncIterator listens on
topicOf(kind) ==
    CASE kind = "beaconLocation" -> "BEACON_LOCATION"
      [] kind = "userLocation"   -> "BEACON_LOCATION"
      [] kind = "beaconJoined"   -> "BEACON_JOINED"

\* the filter without its comparison of beacon ids
beaconLocationFilter_all(payload, id) == TRUE

beaconLocationFilter(payload, id) == payload.beaconID = id

beaconJoinedFilter(payload, id) == payload.beaconID = id

\* payload.userLocation is undefined on every payload but USER_LOCATION's:
\* reading its id throws once the first conjunct is true
userLocationFilter(payload, id, user) ==
    IF payload.beaconID # id THEN "false"
    ELSE IF payload.topic # "USER_LOCATION" THEN "throw"
    ELSE IF payload.user # user THEN "true" ELSE "false"

filter(sub, payload) ==
    CASE sub.kind = "beaconLocation" ->
            IF beaconLocationFilter(payload, sub.id) THEN "true" ELSE "false"
      [] sub.kind = "userLocation" -> userLocationFilter(payload, sub.id, sub.user)
      [] sub.kind = "beaconJoined" ->
            IF beaconJoinedFilter(payload, sub.id) THEN "true" ELSE "false"

\* pubsub.publish(topic, payload): the payload goes to every live iterator on
\* the topic and through its filter.  A filter that throws rejects the
\* iterator's next(); the stream either survives it or ends (closeOnThrow).
deliver(sub, payload, n, closeOnThrow) ==
    IF ~sub.live \/ topicOf(sub.kind) # payload.topic THEN sub
    ELSE LET r == filter(sub, payload)
         IN  IF r = "true" THEN [sub EXCEPT !.received = Append(@, n)]
             ELSE IF r = "throw" /\ closeOnThrow
                  THEN [sub EXCEPT !.live = FALSE, !.until = n]
             ELSE sub

throws(payload) ==
    \E s \in 1..Len(subs) :
        /\ subs[s].live
        /\ topicOf(subs[s].kind) = payload.topic
        /\ filter(subs[s], payload) = "throw"

publish(payload) ==
    /\ published' = Append(published, payload)
    /\ \E closeOnThrow \in (IF throws(payload) THEN BOOLEAN ELSE {FALSE}) :
          subs' = [s \in 1..Len(subs) |->
                      deliver(subs[s], payload, Len(published) + 1, closeOnThrow)]

\* a payload that names no beacon
Event_unscoped(topic, beaconID, user, location, call) ==
    [topic |-> topic, beaconID |-> NoBeacon, user |-> user,
     location |-> location, call |-> call]

\* { beaconJoined | beaconLocation | userLocation: ..., beaconID: beacon.id }
Event(topic, beaconID, user, location, call) ==
    [topic |-> topic, beaconID |-> beaconID, user |-> user,
     location |-> location, call |-> call]

----------------------------------------------------------------------------
(* Calls in flight *)

NoArgs == [id |-> NoBeacon, shortcode |-> "", location |-> NoLocation,
           expiresAt |-> 0, email |-> NoEmail, password |-> NoPassword,
           hasCredentials |-> FALSE, newLeaderID |-> NoUser]

NoToken == [sub |-> NoUser, anon |-> FALSE, email |-> NoEmail]

Done == {c \in 1..Len(calls) : calls[c].pc = "done"}

NewCall(op, user, args, pc, beacon, result) ==
    [op |-> op, user |-> user, args |-> args, pc |-> pc, beacon |-> beacon,
     result |-> result, token |-> NoToken, landmark |-> NoLandmark,
     nearby |-> <<>>, doneAtStart |-> Done]

CanStart == Len(calls) < MaxCalls

Finish(c, result) == [calls EXCEPT ![c].pc = "done", ![c].result = result]

----------------------------------------------------------------------------
(* Membership tests of the resolvers *)

\* the membership test that never finds the user
includesUser_never(beacon, user) == FALSE

\* beacon.followers.includes(user)
includesUser(beacon, user) == user \in Range(beacon.followers)

\* the leadership test that lets every caller through
notLeader_never(beacon, user) == FALSE

\* beacon.leader.id !== user.id (updateBeaconLocation)
notLeader(beacon, user) == beacon.leader # user

\* Query.beacon: beacon.leader === user.id || beacon.followers.includes(user)
beaconGuard(beacon, user) == beacon.leader = user \/ includesUser(beacon, user)

----------------------------------------------------------------------------
(* Clock: new Date() *)

Tick ==
    /\ now < MaxTime
    /\ now' = now + 1
    /\ UNCHANGED <<users, beacons, calls, published, subs, landmarks>>

----------------------------------------------------------------------------
(* Subscriptions: withFilter(pubsub.asyncIterator([topic]), filter) *)

Stream(kind, id, user) ==
    [kind |-> kind, id |-> id, user |-> user, live |-> TRUE,
     received |-> <<>>, since |-> Len(published), until |-> 0]

Subscribe(kind, id, user) ==
    /\ Len(subs) < MaxSubs
    /\ subs' = Append(subs, Stream(kind, id, user))
    /\ UNCHANGED <<users, beacons, calls, published, now, landmarks>>

\* the client cancels the stream or its connection ends
Unsubscribe(s) ==
    /\ s \in 1..Len(subs)
    /\ subs[s].live
    /\ subs' = [subs EXCEPT ![s].live = FALSE, ![s].until = Len(published)]
    /\ UNCHANGED <<users, beacons, calls, published, now, landmarks>>

----------------------------------------------------------------------------
(* Query.beacon.  The context's user is null for a request without a token *)
(* (context, part_000): reading user.id then throws a TypeError.            *)

beacon(user, id) ==
    /\ CanStart
    /\ LET b == findById(id)
           result == IF b = NoBeacon THEN "UserInputError"
                     ELSE IF user = NoUser THEN "TypeError"
                     ELSE IF beaconGuard(beacons[b], user) THEN "Error"
                     ELSE "ok"
       IN  calls' = Append(calls, NewCall("beacon", user, [NoArgs EXCEPT !.id = id],
                                          "done", b, result))
    /\ UNCHANGED <<users, beacons, published, subs, now, landmarks>>

----------------------------------------------------------------------------
(* Query.nearbyBeacons.  A location is a point on one meridian, in metres. *)

Radius == 1500
NearbyPoints == {1, 2001}

\* geolib.getDistance
getDistance(from, to) == IF from >= to THEN from - to ELSE to - from

\* geolib.isPointWithinRadius
isPointWithinRadius(point, center, radius) == getDistance(point, center) < radius

\* a find that keeps expired beacons
notExpired_all(b) == TRUE

\* Beacon.find({ expiresAt: { $gte: new Date() } })
notExpired(b) == beacons[b].expiresAt >= now

\* await Beacon.find(...); beacons.forEach(b => ... nearby.push(b)); return nearby
nearbyBeacons(location) ==
    /\ CanStart
    /\ LET found == SelectSeq([i \in 1..Len(beacons) |-> i], notExpired)
           within(b) == isPointWithinRadius(beacons[b].location, location, Radius)
       IN  calls' = Append(calls,
              [NewCall("nearbyBeacons", NoUser, [NoArgs EXCEPT !.location = location],
                       "done", NoBeacon, "ok")
                 EXCEPT !.nearby = SelectSeq(found, within)])
    /\ UNCHANGED <<users, beacons, published, subs, now, landmarks>>

----------------------------------------------------------------------------
(* Mutation.createBeacon *)

PendingCreates == {c \in 1..Len(calls) :
                     calls[c].op = "createBeacon" /\ calls[c].pc = "saveBeacon"}

\* new Beacon({ leader: user.id, shortcode: nanoid(), location: startLocation,
\* ...beacon }); shortcode is what nanoid() drew
createBeacon(user, shortcode, startLocation, expiresAt) ==
    /\ CanStart
    /\ Len(beacons) + Cardinality(PendingCreates) < MaxBeacons
    /\ LET args == [NoArgs EXCEPT !.shortcode = shortcode,
                                  !.location = startLocation,
                                  !.expiresAt = expiresAt]
       IN  calls' = Append(calls,
              IF user = NoUser
              THEN NewCall("createBeacon", user, args, "done", NoBeacon, "TypeError")
              ELSE NewCall("createBeacon", user, args, "saveBeacon", NoBeacon,
                           "pending"))
    /\ UNCHANGED <<users, beacons, published, subs, now, landmarks>>

\* await beaconDoc.save(); user.beacons.push(newBeacon.id)
createBeacon_saveBeacon(c, ok) ==
    /\ c \in 1..Len(calls)
    /\ calls[c].op = "createBeacon" /\ calls[c].pc = "saveBeacon"
    /\ IF ok
       THEN /\ beacons' = Append(beacons,
                      [leader |-> calls[c].user,
                       shortcode |-> calls[c].args.shortcode,
                       location |-> calls[c].args.location,
                       followers |-> <<>>,
                       landmarks |-> <<>>,
                       expiresAt |-> calls[c].args.expiresAt])
            /\ calls' = [calls EXCEPT ![c].pc = "saveUser",
                                      ![c].beacon = Len(beacons) + 1]
       ELSE /\ calls' = Finish(c, "StoreError")
            /\ UNCHANGED beacons
    /\ UNCHANGED <<users, published, subs, now, landmarks>>

\* await user.save(); return newBeacon
createBeacon_saveUser(c, ok) ==
    /\ c \in 1..Len(calls)
    /\ calls[c].op = "createBeacon" /\ calls[c].pc = "saveUser"
    /\ IF ok
       THEN /\ users' = [users EXCEPT ![calls[c].user].beacons =
                                          Append(@, calls[c].beacon)]
            /\ calls' = Finish(c, "ok")
       ELSE /\ calls' = Finish(c, "StoreError")
            /\ UNCHANGED users
    /\ UNCHANGED <<beacons, published, subs, now, landmarks>>

----------------------------------------------------------------------------
(* Mutation.joinBeacon *)

\* await Beacon.findOne({ shortcode }); the two early returns;
\* beacon.followers.push(user)
joinBeacon(user, shortcode) ==
    /\ CanStart
    /\ LET b == findOneShortcode(shortcode)
           args == [NoArgs EXCEPT !.shortcode = shortcode]
       IN  calls' = Append(calls,
              IF b = NoBeacon
              THEN NewCall("joinBeacon", user, args, "done", b, "UserInputError")
              ELSE IF includesUser(beacons[b], user)
              THEN NewCall("joinBeacon", user, args, "done", b, "Error")
              ELSE NewCall("joinBeacon", user, args, "saveBeacon", b, "pending"))
    /\ UNCHANGED <<users, beacons, published, subs, now, landmarks>>

\* await beacon.save(); pubsub.publish("BEACON_JOINED", ...);
\* user.beacons.push(beacon.id), which throws for a context without a user:
\* until then the resolver reads no property of user
joinBeacon_saveBeacon(c, ok) ==
    /\ c \in 1..Len(calls)
    /\ calls[c].op = "joinBeacon" /\ calls[c].pc = "saveBeacon"
    /\ IF ok
       THEN /\ beacons' = [beacons EXCEPT ![calls[c].beacon].followers =
                                              Append(@, calls[c].user)]
            /\ publish(Event("BEACON_JOINED", calls[c].beacon, calls[c].user,
                             NoLocation, c))
            /\ calls' = IF calls[c].user = NoUser
                        THEN Finish(c, "TypeError")
                        ELSE [calls EXCEPT ![c].pc = "saveUser"]
       ELSE /\ calls' = Finish(c, "StoreError")
            /\ UNCHANGED <<beacons, published, subs>>
    /\ UNCHANGED <<users, now, landmarks>>

\* await user.save(); return beacon
joinBeacon_saveUser(c, ok) ==
    /\ c \in 1..Len(calls)
    /\ calls[c].op = "joinBeacon" /\ calls[c].pc = "saveUser"
    /\ IF ok
       THEN /\ users' = [users EXCEPT ![calls[c].user].beacons =
                                          Append(@, calls[c].beacon)]
            /\ calls' = Finish(c, "ok")
       ELSE /\ calls' = Finish(c, "StoreError")
            /\ UNCHANGED users
    /\ UNCHANGED <<beacons, published, subs, now, landmarks>>

----------------------------------------------------------------------------
(* Mutation.createLandmark *)

\* the membership test that lets every caller through
notPartOfBeacon_never(doc, user) == FALSE

\* !beacon.followers.includes(user.id) && beacon.leader.toString() !== user.id
notPartOfBeacon(doc, user) == ~includesUser(doc, user) /\ doc.leader # user

\* await Beacon.findById(beaconID); the early return;
\* new Landmark({ createdBy: user.id, ...landmark })
createLandmark(user, beaconID) ==
    /\ CanStart
    /\ LET b == findById(beaconID)
           args == [NoArgs EXCEPT !.id = beaconID]
       IN  calls' = Append(calls,
              IF b = NoBeacon
              THEN NewCall("createLandmark", user, args, "done", b, "UserInputError")
              ELSE IF user = NoUser
              THEN NewCall("createLandmark", user, args, "done", b, "TypeError")
              ELSE IF notPartOfBeacon(beacons[b], user)
              THEN NewCall("createLandmark", user, args, "done", b, "UserInputError")
              ELSE NewCall("createLandmark", user, args, "saveLandmark", b, "pending"))
    /\ UNCHANGED <<users, beacons, published, subs, now, landmarks>>

\* await newLandmark.save(); beacon.landmarks.push(newLandmark.id)
createLandmark_saveLandmark(c, ok) ==
    /\ c \in 1..Len(calls)
    /\ calls[c].op = "createLandmark" /\ calls[c].pc = "saveLandmark"
    /\ IF ok
       THEN /\ landmarks' = Append(landmarks, [createdBy |-> calls[c].user])
            /\ calls' = [calls EXCEPT ![c].pc = "saveBeacon",
                                      ![c].landmark = Len(landmarks) + 1]
       ELSE /\ calls' = Finish(c, "StoreError")
            /\ UNCHANGED landmarks
    /\ UNCHANGED <<users, beacons, published, subs, now>>

\* await beacon.save(); return newLandmark
createLandmark_saveBeacon(c, ok) ==
    /\ c \in 1..Len(calls)
    /\ calls[c].op = "createLandmark" /\ calls[c].pc = "saveBeacon"
    /\ IF ok
       THEN /\ beacons' = [beacons EXCEPT ![calls[c].beacon].landmarks =
                                              Append(@, calls[c].landmark)]
            /\ calls' = Finish(c, "ok")
       ELSE /\ calls' = Finish(c, "StoreError")
            /\ UNCHANGED beacons
    /\ UNCHANGED <<users, published, subs, now, landmarks>>

----------------------------------------------------------------------------
(* Mutation.updateBeaconLocation *)

\* await Beacon.findById(id).populate("leader"); the two early returns;
\* pubsub.publish("BEACON_LOCATION", ...); beacon.location = location
updateBeaconLocation(user, id, location) ==
    /\ CanStart
    /\ LET b == findById(id)
           args == [NoArgs EXCEPT !.id = id, !.location = location]
       IN  IF b = NoBeacon
           THEN /\ calls' = Append(calls, NewCall("updateBeaconLocation", user, args,
                                                  "done", b, "UserInputError"))
                /\ UNCHANGED <<published, subs>>
           ELSE IF user = NoUser
           THEN /\ calls' = Append(calls, NewCall("updateBeaconLocation", user, args,
                                                  "done", b, "TypeError"))
                /\ UNCHANGED <<published, subs>>
           ELSE IF notLeader(beacons[b], user)
           THEN /\ calls' = Append(calls, NewCall("updateBeaconLocation", user, args,
                                                  "done", b, "Error"))
                /\ UNCHANGED <<published, subs>>
           ELSE /\ calls' = Append(calls, NewCall("updateBeaconLocation", user, args,
                                                  "save", b, "pending"))
                /\ publish(Event("BEACON_LOCATION", b, NoUser, location,
                                 Len(calls) + 1))
    /\ UNCHANGED <<users, beacons, now, landmarks>>

\* await beacon.save(); return beacon
updateBeaconLocation_save(c, ok) ==
    /\ c \in 1..Len(calls)
    /\ calls[c].op = "updateBeaconLocation" /\ calls[c].pc = "save"
    /\ IF ok
       THEN /\ beacons' = [beacons EXCEPT ![calls[c].beacon].location =
                                              calls[c].args.location]
            /\ calls' = Finish(c, "ok")
       ELSE /\ calls' = Finish(c, "StoreError")
            /\ UNCHANGED beacons
    /\ UNCHANGED <<users, published, subs, now, landmarks>>

----------------------------------------------------------------------------
(* Mutation.updateUserLocation *)

\* await Beacon.findById(id); the early return; user.location = location
updateUserLocation(user, id, location) ==
    /\ CanStart
    /\ LET b == findById(id)
           args == [NoArgs EXCEPT !.id = id, !.location = location]
       IN  calls' = Append(calls,
              IF b = NoBeacon
              THEN NewCall("updateUserLocation", user, args, "done", b, "UserInputError")
              ELSE IF user = NoUser
              THEN NewCall("updateUserLocation", user, args, "done", b, "TypeError")
              ELSE NewCall("updateUserLocation", user, args, "save", b, "pending"))
    /\ UNCHANGED <<users, beacons, published, subs, now, landmarks>>

\* await user.save(); pubsub.publish("USER_LOCATION", ...); return user
updateUserLocation_save(c, ok) ==
    /\ c \in 1..Len(calls)
    /\ calls[c].op = "updateUserLocation" /\ calls[c].pc = "save"
    /\ IF ok
       THEN /\ users' = [users EXCEPT ![calls[c].user].location =
                                          calls[c].args.location]
            /\ publish(Event("USER_LOCATION", calls[c].beacon, calls[c].user,
                             calls[c].args.location, c))
            /\ calls' = Finish(c, "ok")
       ELSE /\ calls' = Finish(c, "StoreError")
            /\ UNCHANGED <<users, published, subs>>
    /\ UNCHANGED <<beacons, now, landmarks>>

----------------------------------------------------------------------------
(* Mutation.changeLeader *)

\* the leadership test that lets every caller through
notCurrentLeader_never(doc, user) == FALSE

\* beacon.leader != user.id
notCurrentLeader(doc, user) == doc.leader # user

\* await Beacon.findById(beaconID); the two early returns;
\* beacon.leader = newLeaderID.  Reading user.id throws for a context
\* without a user.
changeLeader(user, beaconID, newLeaderID) ==
    /\ CanStart
    /\ LET b == findById(beaconID)
           args == [NoArgs EXCEPT !.id = beaconID, !.newLeaderID = newLeaderID]
       IN  calls' = Append(calls,
              IF b = NoBeacon
              THEN NewCall("changeLeader", user, args, "done", b, "UserInputError")
              ELSE IF user = NoUser
              THEN NewCall("changeLeader", user, args, "done", b, "TypeError")
              ELSE IF notCurrentLeader(beacons[b], user)
              THEN NewCall("changeLeader", user, args, "done", b, "Error")
              ELSE NewCall("changeLeader", user, args, "save", b, "pending"))
    /\ UNCHANGED <<users, beacons, published, subs, now, landmarks>>

\* await beacon.save(); return beacon
changeLeader_save(c, ok) ==
    /\ c \in 1..Len(calls)
    /\ calls[c].op = "changeLeader" /\ calls[c].pc = "save"
    /\ IF ok
       THEN /\ beacons' = [beacons EXCEPT ![calls[c].beacon].leader =
                                              calls[c].args.newLeaderID]
            /\ calls' = Finish(c, "ok")
       ELSE /\ calls' = Finish(c, "StoreError")
            /\ UNCHANGED beacons
    /\ UNCHANGED <<users, published, subs, now, landmarks>>

----------------------------------------------------------------------------
(* Credentials: bcrypt.hash and bcrypt.compare *)

hash(password) == <<"$2a$10$", password>>

compare(password, hashed) == hashed = hash(password)

----------------------------------------------------------------------------
(* Sessions: beacons are created and joined while clients watch joins *)

User(email, password) ==
    [email |-> email, password |-> password, location |-> NoLocation,
     beacons |-> <<>>]

Beacon(leader, shortcode, location, followers, expiresAt) ==
    [leader |-> leader, shortcode |-> shortcode, location |-> location,
     followers |-> followers, landmarks |-> <<>>, expiresAt |-> expiresAt]

\* The server has just started on a store that holds one registered user, one
\* anonymous user and one beacon created by user 1; a client has subscribed to
\* the joins of each beacon id and nothing has been published yet.
InitSession ==
    /\ users = [u \in UserIds |->
                  IF u = 1
                  THEN [User("a@b.com", hash("right")) EXCEPT !.beacons = <<1>>]
                  ELSE User(NoEmail, <<>>)]
    /\ beacons = <<Beacon(1, "AAAAAA", 1, <<>>, 1)>>
    /\ landmarks = <<>>
    /\ calls = <<>>
    /\ published = <<>>
    /\ subs = <<Stream("beaconJoined", 1, 1), Stream("beaconJoined", 2, 2)>>
    /\ now = 0

NextSession ==
    \/ \E s \in 1..Len(subs) : Unsubscribe(s)
    \/ \E user \in UserIds, shortcode \in Shortcodes :
          createBeacon(user, shortcode, 1, 1)
    \/ \E c \in 1..MaxCalls, ok \in BOOLEAN : createBeacon_saveBeacon(c, ok)
    \/ \E c \in 1..MaxCalls, ok \in BOOLEAN : createBeacon_saveUser(c, ok)
    \/ \E user \in UserIds, shortcode \in Shortcodes : joinBeacon(user, shortcode)
    \/ \E c \in 1..MaxCalls, ok \in BOOLEAN : joinBeacon_saveBeacon(c, ok)
    \/ \E c \in 1..MaxCalls, ok \in BOOLEAN : joinBeacon_saveUser(c, ok)

SpecSession == InitSession /\ [][NextSession]_vars

----------------------------------------------------------------------------
(* Reading a beacon while users join it *)

NextQuery ==
    \/ \E user \in UserIds, id \in BeaconIds : beacon(user, id)
    \/ \E user \in UserIds, shortcode \in Shortcodes : joinBeacon(user, shortcode)
    \/ \E c \in 1..MaxCalls, ok \in BOOLEAN : joinBeacon_saveBeacon(c, ok)
    \/ \E c \in 1..MaxCalls, ok \in BOOLEAN : joinBeacon_saveUser(c, ok)

SpecQuery == InitSession /\ [][NextQuery]_vars

----------------------------------------------------------------------------
(* Creating beacons over time, from an empty beacon collection *)

InitCreate ==
    /\ users = [u \in UserIds |->
                  IF u = 1 THEN User("a@b.com", hash("right"))
                  ELSE User(NoEmail, <<>>)]
    /\ beacons = <<>>
    /\ landmarks = <<>>
    /\ calls = <<>>
    /\ published = <<>>
    /\ subs = <<>>
    /\ now = 0

NextCreate ==
    \/ Tick
    \/ \E user \in UserIds, shortcode \in Shortcodes, expiresAt \in Expiries :
          createBeacon(user, shortcode, 1, expiresAt)
    \/ \E c \in 1..MaxCalls, ok \in BOOLEAN : createBeacon_saveBeacon(c, ok)
    \/ \E c \in 1..MaxCalls, ok \in BOOLEAN : createBeacon_saveUser(c, ok)

SpecCreate == InitCreate /\ [][NextCreate]_vars

----------------------------------------------------------------------------
(* Location updates and their streams, on a store holding two beacons *)

InitLocation ==
    /\ users = [u \in UserIds |->
                  IF u = 1
                  THEN [User("a@b.com", hash("right")) EXCEPT !.beacons = <<1>>]
                  ELSE [User(NoEmail, <<>>) EXCEPT !.beacons = <<2>>]]
    /\ beacons = <<Beacon(1, "AAAAAA", 1, <<>>, 1), Beacon(2, "BBBBBB", 1, <<>>, 1)>>
    /\ landmarks = <<>>
    /\ calls = <<>>
    /\ published = <<>>
    /\ subs = <<>>
    /\ now = 0

NextLocation ==
    \/ \E kind \in {"beaconLocation", "userLocation"}, id \in BeaconIds,
          user \in UserIds : Subscribe(kind, id, user)
    \/ \E s \in 1..Len(subs) : Unsubscribe(s)
    \/ \E user \in UserIds, id \in BeaconIds, location \in Locations :
          updateBeaconLocation(user, id, location)
    \/ \E c \in 1..MaxCalls, ok \in BOOLEAN : updateBeaconLocation_save(c, ok)
    \/ \E user \in UserIds, id \in BeaconIds, location \in Locations :
          updateUserLocation(user, id, location)
    \/ \E c \in 1..MaxCalls, ok \in BOOLEAN : updateUserLocation_save(c, ok)

SpecLocation == InitLocation /\ [][NextLocation]_vars

----------------------------------------------------------------------------
(* The beacon's location and the clients that watch it *)

NextStream ==
    \/ \E id \in BeaconIds : Subscribe("beaconLocation", id, 1)
    \/ \E s \in 1..Len(subs) : Unsubscribe(s)
    \/ \E user \in UserIds, id \in BeaconIds \cup {Len(beacons) + 1},
          location \in Locations : updateBeaconLocation(user, id, location)
    \/ \E c \in 1..MaxCalls, ok \in BOOLEAN : updateBeaconLocation_save(c, ok)

SpecStream == InitLocation /\ [][NextStream]_vars

----------------------------------------------------------------------------
(* Mutation.register *)

\* User.findOne({ email }): the first user with that email, or null
findOneEmail(email) ==
    LET hits == {u \in 1..Len(users) : users[u].email = email}
    IN  IF hits = {} THEN NoUser ELSE Min(hits)

\* User.findById(id)
findUserById(id) == IF id \in 1..Len(users) THEN id ELSE NoUser

PendingRegisters == {c \in 1..Len(calls) :
                       calls[c].op = "register" /\ calls[c].pc = "save"}

\* credentials && (await User.findOne({ email: credentials.email })) !== null
register(hasCredentials, email, password) ==
    /\ CanStart
    /\ Len(users) + Cardinality(PendingRegisters) < MaxUsers
    /\ LET args == [NoArgs EXCEPT !.hasCredentials = hasCredentials,
                                  !.email = email, !.password = password]
       IN  calls' = Append(calls,
              IF hasCredentials /\ findOneEmail(email) # NoUser
              THEN NewCall("register", NoUser, args, "done", NoBeacon, "UserInputError")
              ELSE NewCall("register", NoUser, args, "save", NoBeacon, "pending"))
    /\ UNCHANGED <<users, beacons, published, subs, now, landmarks>>

\* await bcrypt.hash(credentials.password, 10); await newUser.save()
register_save(c, ok) ==
    /\ c \in 1..Len(calls)
    /\ calls[c].op = "register" /\ calls[c].pc = "save"
    /\ IF ok
       THEN /\ users' = Append(users,
                   IF calls[c].args.hasCredentials
                   THEN User(calls[c].args.email, hash(calls[c].args.password))
                   ELSE User(NoEmail, <<>>))
            /\ calls' = [Finish(c, "ok") EXCEPT ![c].user = Len(users) + 1]
       ELSE /\ calls' = Finish(c, "StoreError")
            /\ UNCHANGED users
    /\ UNCHANGED <<beacons, published, subs, now, landmarks>>

----------------------------------------------------------------------------
(* Mutation.login *)

\* the credential test without the password comparison
valid_emailOnly(email, password, user) == email = user.email

\* email === user.email && (await bcrypt.compare(password, user.password))
valid(email, password, user) ==
    email = user.email /\ compare(password, user.password)

\* the argument check that lets a call without arguments through
missingBoth_never(id, hasCredentials) == FALSE

\* !id && !credentials
missingBoth(id, hasCredentials) == id = NoUser /\ ~hasCredentials

\* user.email && !credentials
needsCredentials(user, hasCredentials) ==
    user.email # NoEmail /\ ~hasCredentials

\* jwt.sign({ anon, ...(email && { email }) }, secret, { subject: user.id })
sign(anon, email, subject) == [sub |-> subject, anon |-> anon, email |-> email]

\* id is NoUser and hasCredentials is FALSE for an argument left out
login(id, hasCredentials, email, password) ==
    /\ CanStart
    /\ LET args == [NoArgs EXCEPT !.id = id, !.hasCredentials = hasCredentials,
                                  !.email = email, !.password = password]
           user == IF id # NoUser THEN findUserById(id) ELSE findOneEmail(email)
           fail(result) == NewCall("login", user, args, "done", NoBeacon, result)
       IN  calls' = Append(calls,
              IF missingBoth(id, hasCredentials) THEN fail("UserInputError")
              ELSE IF user = NoUser THEN fail("Error")
              ELSE IF needsCredentials(users[user], hasCredentials)
              THEN fail("UserInputError")
              ELSE IF hasCredentials /\ ~valid(email, password, users[user])
              THEN fail("AuthenticationError")
              ELSE [NewCall("login", user, args, "done", NoBeacon, "ok")
                       EXCEPT !.token = sign(~hasCredentials, email, user)])
    /\ UNCHANGED <<users, beacons, published, subs, now, landmarks>>

\* The server has just started on a store that holds one registered user.
InitAuth ==
    /\ users = <<User("a@b.com", hash("right"))>>
    /\ beacons = <<>>
    /\ landmarks = <<>>
    /\ calls = <<>>
    /\ published = <<>>
    /\ subs = <<>>
    /\ now = 0

\* an argument left out carries no value
Credentials ==
    {[has |-> FALSE, email |-> NoEmail, password |-> NoPassword]} \cup
    {[has |-> TRUE, email |-> e, password |-> p] : e \in Emails, p \in Passwords}

NextAuth ==
    \/ \E cr \in Credentials : register(cr.has, cr.email, cr.password)
    \/ \E c \in 1..MaxCalls, ok \in BOOLEAN : register_save(c, ok)
    \/ \E id \in {NoUser} \cup (1..MaxUsers), cr \in Credentials :
          login(id, cr.has, cr.email, cr.password)

SpecAuth == InitAuth /\ [][NextAuth]_vars

----------------------------------------------------------------------------
(* Registrations racing on an empty user collection *)

InitRegister ==
    /\ users = <<>>
    /\ beacons = <<>>
    /\ landmarks = <<>>
    /\ calls = <<>>
    /\ published = <<>>
    /\ subs = <<>>
    /\ now = 0

NextRegister ==
    \/ \E cr \in Credentials : register(cr.has, cr.email, cr.password)
    \/ \E c \in 1..MaxCalls, ok \in BOOLEAN : register_save(c, ok)

SpecRegister == InitRegister /\ [][NextRegister]_vars

----------------------------------------------------------------------------
(* Handing over the leadership of a beacon that has a follower *)

\* The server has just started on a store where user 2 has joined the beacon
\* of user 1.
InitLeader ==
    /\ users = [u \in UserIds |->
                  IF u = 1
                  THEN [User("a@b.com", hash("right")) EXCEPT !.beacons = <<1>>]
                  ELSE [User(NoEmail, <<>>) EXCEPT !.beacons = <<1>>]]
    /\ beacons = <<Beacon(1, "AAAAAA", 1, <<2>>, 1)>>
    /\ landmarks = <<>>
    /\ calls = <<>>
    /\ published = <<>>
    /\ subs = <<>>
    /\ now = 0

NextLeader ==
    \/ \E user \in UserIds, beaconID \in BeaconIds, newLeaderID \in UserIds :
          changeLeader(user, beaconID, newLeaderID)
    \/ \E c \in 1..MaxCalls, ok \in BOOLEAN : changeLeader_save(c, ok)

SpecLeader == InitLeader /\ [][NextLeader]_vars

----------------------------------------------------------------------------
(* Landmarks on two beacons, one of them with a follower *)

\* The server has just started on a store where user 1 leads beacon 1, which
\* user 2 has joined, and user 2 leads beacon 2.
InitLandmark ==
    /\ users = [u \in UserIds |->
                  IF u = 1
                  THEN [User("a@b.com", hash("right")) EXCEPT !.beacons = <<1>>]
                  ELSE [User(NoEmail, <<>>) EXCEPT !.beacons = <<2, 1>>]]
    /\ beacons = <<Beacon(1, "AAAAAA", 1, <<2>>, 1), Beacon(2, "BBBBBB", 1, <<>>, 1)>>
    /\ landmarks = <<>>
    /\ calls = <<>>
    /\ published = <<>>
    /\ subs = <<>>
    /\ now = 0

NextLandmark ==
    \/ \E user \in UserIds, beaconID \in BeaconIds \cup {Len(beacons) + 1} :
          createLandmark(user, beaconID)
    \/ \E c \in 1..MaxCalls, ok \in BOOLEAN : createLandmark_saveLandmark(c, ok)
    \/ \E c \in 1..MaxCalls, ok \in BOOLEAN : createLandmark_saveBeacon(c, ok)

SpecLandmark == InitLandmark /\ [][NextLandmark]_vars

----------------------------------------------------------------------------
(* Requests without a token: the context's user is null *)

NextAnonymous ==
    \/ \E id \in BeaconIds \cup {Len(beacons) + 1} : beacon(NoUser, id)
    \/ \E shortcode \in Shortcodes, expiresAt \in Expiries :
          createBeacon(NoUser, shortcode, 1, expiresAt)
    \/ \E shortcode \in Shortcodes \cup {"CCCCCC"} : joinBeacon(NoUser, shortcode)
    \/ \E c \in 1..MaxCalls, ok \in BOOLEAN : joinBeacon_saveBeacon(c, ok)
    \/ \E id \in BeaconIds \cup {Len(beacons) + 1} : createLandmark(NoUser, id)
    \/ \E id \in BeaconIds \cup {Len(beacons) + 1}, location \in Locations :
          updateBeaconLocation(NoUser, id, location)
    \/ \E id \in BeaconIds \cup {Len(beacons) + 1}, location \in Locations :
          updateUserLocation(NoUser, id, location)
    \/ \E id \in BeaconIds \cup {Len(beacons) + 1}, newLeaderID \in UserIds :
          changeLeader(NoUser, id, newLeaderID)

SpecAnonymous == InitLeader /\ [][NextAnonymous]_vars

----------------------------------------------------------------------------
(* Discovery: beacons are created and expire while clients look around *)

\* The server has just started on a store holding one beacon, which expires
\* at the first tick.
InitNearby ==
    /\ users = [u \in UserIds |->
                  IF u = 1
                  THEN [User("a@b.com", hash("right")) EXCEPT !.beacons = <<1>>]
                  ELSE User(NoEmail, <<>>)]
    /\ beacons = <<Beacon(1, "AAAAAA", 1, <<>>, 0)>>
    /\ landmarks = <<>>
    /\ calls = <<>>
    /\ published = <<>>
    /\ subs = <<>>
    /\ now = 0

NextNearby ==
    \/ Tick
    \/ \E startLocation \in NearbyPoints, expiresAt \in Expiries :
          createBeacon(1, "BBBBBB", startLocation, expiresAt)
    \/ \E c \in 1..MaxCalls, ok \in BOOLEAN : createBeacon_saveBeacon(c, ok)
    \/ \E c \in 1..MaxCalls, ok \in BOOLEAN : createBeacon_saveUser(c, ok)
    \/ \E location \in NearbyPoints : nearbyBeacons(location)

SpecNearby == InitNearby /\ [][NextNearby]_vars

----------------------------------------------------------------------------
(* All five mutations of a session *)

NextEvents ==
    \/ \E user \in UserIds : createBeacon(user, "BBBBBB", 1, 1)
    \/ \E c \in 1..MaxCalls, ok \in BOOLEAN : createBeacon_saveBeacon(c, ok)
    \/ \E c \in 1..MaxCalls, ok \in BOOLEAN : createBeacon_saveUser(c, ok)
    \/ \E user \in UserIds, shortcode \in Shortcodes : joinBeacon(user, shortcode)
    \/ \E c \in 1..MaxCalls, ok \in BOOLEAN : joinBeacon_saveBeacon(c, ok)
    \/ \E c \in 1..MaxCalls, ok \in BOOLEAN : joinBeacon_saveUser(c, ok)
    \/ \E user \in UserIds, id \in BeaconIds, location \in Locations :
          updateBeaconLocation(user, id, location)
    \/ \E c \in 1..MaxCalls, ok \in BOOLEAN : updateBeaconLocation_save(c, ok)
    \/ \E user \in UserIds, id \in BeaconIds, location \in Locations :
          updateUserLocation(user, id, location)
    \/ \E c \in 1..MaxCalls, ok \in BOOLEAN : updateUserLocation_save(c, ok)
    \/ \E user \in UserIds, id \in BeaconIds, newLeaderID \in UserIds :
          changeLeader(user, id, newLeaderID)
    \/ \E c \in 1..MaxCalls, ok \in BOOLEAN : changeLeader_save(c, ok)

SpecEvents == InitSession /\ [][NextEvents]_vars

----------------------------------------------------------------------------
(* Membership: creating, joining and handing over leadership *)

NextMembership ==
    \/ \E user \in UserIds : createBeacon(user, "BBBBBB", 1, 1)
    \/ \E c \in 1..MaxCalls, ok \in BOOLEAN : createBeacon_saveBeacon(c, ok)
    \/ \E c \in 1..MaxCalls, ok \in BOOLEAN : createBeacon_saveUser(c, ok)
    \/ \E user \in UserIds, shortcode \in Shortcodes : joinBeacon(user, shortcode)
    \/ \E c \in 1..MaxCalls, ok \in BOOLEAN : joinBeacon_saveBeacon(c, ok)
    \/ \E c \in 1..MaxCalls, ok \in BOOLEAN : joinBeacon_saveUser(c, ok)
    \/ \E user \in UserIds, id \in BeaconIds, newLeaderID \in UserIds :
          changeLeader(user, id, newLeaderID)
    \/ \E c \in 1..MaxCalls, ok \in BOOLEAN : changeLeader_save(c, ok)

SpecMembership == InitSession /\ [][NextMembership]_vars

----------------------------------------------------------------------------
(* Joining while beacons expire and their shortcodes are drawn again *)

NextExpiry ==
    \/ Tick
    \/ \E shortcode \in Shortcodes : createBeacon(1, shortcode, 1, 1)
    \/ \E c \in 1..MaxCalls, ok \in BOOLEAN : createBeacon_saveBeacon(c, ok)
    \/ \E c \in 1..MaxCalls, ok \in BOOLEAN : createBeacon_saveUser(c, ok)
    \/ \E shortcode \in Shortcodes : joinBeacon(2, shortcode)
    \/ \E c \in 1..MaxCalls, ok \in BOOLEAN : joinBeacon_saveBeacon(c, ok)
    \/ \E c \in 1..MaxCalls, ok \in BOOLEAN : joinBeacon_saveUser(c, ok)

SpecExpiry == InitNearby /\ [][NextExpiry]_vars

----------------------------------------------------------------------------
(* Properties *)

EventsOf(c) == {n \in 1..Len(published) : published[n].call = c}

\* event n was published while stream s was subscribed
During(s, n) == subs[s].since < n /\ (subs[s].live \/ n <= subs[s].until)

\* the step appends a call of this resolver to the log
Starts(op) == Len(calls') = Len(calls) + 1 /\ calls'[Len(calls')].op = op

Last == calls'[Len(calls')]

\* C1: a userLocation(X) stream of viewer V receives an event published by
\* updateUserLocation(caller, B, loc) while it is subscribed if and only if
\* B = X and caller is not V.
C1_UserLocationDelivered ==
    \A s \in 1..Len(subs), n \in 1..Len(published) :
        (/\ subs[s].kind = "userLocation"
         /\ published[n].topic = "USER_LOCATION"
         /\ During(s, n))
        => ((n \in Range(subs[s].received))
               <=> (published[n].beaconID = subs[s].id
                      /\ published[n].user # subs[s].user))

\* C2: Query.beacon on an existing beacon returns the beacon exactly when the
\* caller is its leader or one of its followers, and an error otherwise.
C2_BeaconIffMember ==
    [][(Starts("beacon") /\ Last.beacon # NoBeacon)
         => ((Last.result = "ok")
               <=> (\/ beacons[Last.beacon].leader = Last.user
                    \/ Last.user \in Range(beacons[Last.beacon].followers)))]_vars

\* C3: with createBeacon and joinBeacon only, no beacon's leader is among
\* that beacon's followers.
C3_LeaderNotFollower ==
    \A b \in 1..Len(beacons) : beacons[b].leader \notin Range(beacons[b].followers)

\* call j is a joinBeacon of the same user with the same shortcode as the
\* joinBeacon i, started after i had returned the beacon
Rejoin(i, j) ==
    /\ i # j
    /\ calls[i].op = "joinBeacon" /\ calls[j].op = "joinBeacon"
    /\ calls[i].user = calls[j].user
    /\ calls[i].args.shortcode = calls[j].args.shortcode
    /\ calls[i].result = "ok"
    /\ i \in calls[j].doneAtStart

\* every joinBeacon of that user and shortcode other than i came after i
Sequential(i) ==
    \A k \in 1..Len(calls) :
        (/\ k # i
         /\ calls[k].op = "joinBeacon"
         /\ calls[k].user = calls[i].user
         /\ calls[k].args.shortcode = calls[i].args.shortcode)
        => i \in calls[k].doneAtStart

C5_ActiveShortcodesUnique ==
    \A a, b \in 1..Len(beacons) :
        (a # b /\ active(a) /\ active(b))
        => beacons[a].shortcode # beacons[b].shortcode

\* C6: updateBeaconLocation by a caller who is not the leader of the existing
\* beacon returns an error at once, publishes nothing and leaves every stored
\* beacon as it was.
C6_NonLeaderRejected ==
    [][(/\ Starts("updateBeaconLocation")
        /\ Last.beacon # NoBeacon
        /\ beacons[Last.beacon].leader # Last.user)
         => /\ Last.pc = "done" /\ Last.result = "Error"
            /\ published' = published
            /\ subs' = subs
            /\ beacons' = beacons]_vars

C6_Witness ==
    \E c \in 1..Len(calls) :
        /\ calls[c].op = "updateBeaconLocation"
        /\ calls[c].beacon # NoBeacon
        /\ beacons[calls[c].beacon].leader # calls[c].user
        /\ calls[c].result = "Error"
        /\ beacons[calls[c].beacon].location # calls[c].args.location

\* C7: a call that ended in failure has published no event.
C7_FailedCallPublishesNothing ==
    \A c \in 1..Len(calls) :
        (calls[c].pc = "done" /\ calls[c].result # "ok") => EventsOf(c) = {}

\* C8: a beaconLocation(X) stream holds, once each and in publish order,
\* exactly the BEACON_LOCATION events published for beacon X while it was
\* subscribed.
C8_BeaconLocationDelivered ==
    \A s \in 1..Len(subs) :
        subs[s].kind = "beaconLocation"
        => /\ \A n \in 1..Len(published) :
                (n \in Range(subs[s].received))
                   <=> (/\ published[n].topic = "BEACON_LOCATION"
                        /\ published[n].beaconID = subs[s].id
                        /\ During(s, n))
           /\ \A k \in 1..(Len(subs[s].received) - 1) :
                subs[s].received[k] < subs[s].received[k + 1]

C8_Witness ==
    \E s \in 1..Len(subs), n, m \in 1..Len(published) :
        /\ subs[s].kind = "beaconLocation"
        /\ n \in Range(subs[s].received)
        /\ During(s, m) /\ published[m].beaconID # subs[s].id
        /\ m \notin Range(subs[s].received)

\* beacon b was stored when call c started
ExistedAt(b, c) ==
    \/ \E k \in calls[c].doneAtStart :
          calls[k].op = "createBeacon" /\ calls[k].beacon = b
    \/ \A k \in 1..Len(calls) : ~(calls[k].op = "createBeacon" /\ calls[k].beacon = b)

\* C9: a successful joinBeacon(F, S) adds F to the followers of the beacon B
\* that had shortcode S, adds B to F's beacons, and its BEACON_JOINED event
\* reaches exactly the live beaconJoined streams of B's id.
C9_JoinReachesBeacon ==
    \A c \in 1..Len(calls), b \in 1..Len(beacons) :
        (/\ calls[c].op = "joinBeacon" /\ calls[c].result = "ok"
         /\ beacons[b].shortcode = calls[c].args.shortcode
         /\ ExistedAt(b, c))
        => /\ calls[c].user \in Range(beacons[b].followers)
           /\ b \in Range(users[calls[c].user].beacons)
           /\ \E n \in EventsOf(c) :
                /\ published[n].topic = "BEACON_JOINED"
                /\ published[n].beaconID = b
                /\ published[n].user = calls[c].user
                /\ \A s \in 1..Len(subs) :
                      subs[s].kind = "beaconJoined"
                      => ((n \in Range(subs[s].received))
                            <=> (subs[s].id = b /\ During(s, n)))

\* C10: login issues a token for a user with stored credentials only on
\* credentials that match them; an id-only login for such a user and a login
\* whose password matches no user of that email fail and issue no token, the
\* latter with AuthenticationError.
C10_LoginNeedsPassword ==
    [][Starts("login")
         => /\ (Last.result = "ok") <=> (Last.token # NoToken)
            /\ \A u \in 1..Len(users) :
                 users[u].email # NoEmail
                 => /\ (Last.token # NoToken /\ Last.token.sub = u)
                         => /\ Last.args.hasCredentials
                            /\ Last.args.email = users[u].email
                            /\ compare(Last.args.password, users[u].password)
                    /\ (Last.args.id = u /\ ~Last.args.hasCredentials)
                         => Last.result = "UserInputError"
            /\ (/\ Last.args.id = NoUser
                /\ Last.args.hasCredentials
                /\ \E u \in 1..Len(users) : users[u].email = Last.args.email
                /\ \A u \in 1..Len(users) :
                      users[u].email = Last.args.email
                      => ~compare(Last.args.password, users[u].password))
                 => Last.result = "AuthenticationError"]_vars

C10_Witness ==
    \E c, d \in 1..Len(calls) :
        /\ calls[c].op = "login" /\ calls[d].op = "login"
        /\ calls[c].result = "AuthenticationError"
        /\ calls[c].args.email = users[1].email
        /\ calls[d].args.id = 1 /\ ~calls[d].args.hasCredentials
        /\ calls[d].result = "UserInputError"

\* C11 as stated: a login that supplies neither id nor credentials, and one
\* that supplies both, each fail with a validation error and issue no token.
C11_ExactlyOneArgument ==
    [][(/\ Starts("login")
        /\ ((Last.args.id = NoUser) <=> ~Last.args.hasCredentials))
         => (Last.result = "UserInputError" /\ Last.token = NoToken)]_vars

\* C11: a login that supplies neither id nor credentials fails with a
\* validation error and issues no token; one that supplies both loads the
\* user by id and issues that user's token exactly when the credentials match
\* the user's stored email and password hash, and issues none otherwise.
C11_AtLeastOneArgument ==
    [][Starts("login")
         => /\ (Last.args.id = NoUser /\ ~Last.args.hasCredentials)
                 => (Last.result = "UserInputError" /\ Last.token = NoToken)
            /\ (Last.args.id # NoUser /\ Last.args.hasCredentials)
                 => /\ (Last.result = "ok")
                         <=> (/\ Last.args.id \in 1..Len(users)
                              /\ users[Last.args.id].email = Last.args.email
                              /\ compare(Last.args.password,
                                         users[Last.args.id].password))
                    /\ (Last.result = "ok")
                         => Last.token = [sub |-> Last.args.id, anon |-> FALSE,
                                          email |-> Last.args.email]
                    /\ (Last.result # "ok") => Last.token = NoToken]_vars

C11_Witness ==
    \E c, d \in 1..Len(calls) :
        /\ calls[c].op = "login" /\ calls[d].op = "login"
        /\ calls[c].args.id = NoUser /\ ~calls[c].args.hasCredentials
        /\ calls[c].result = "UserInputError"
        /\ calls[d].args.id # NoUser /\ calls[d].args.hasCredentials
        /\ calls[d].result = "ok"

\* C12: a register whose email already belongs to a user creates no user:
\* no two users have the same email.
C12_EmailsUnique ==
    \A u, v \in 1..Len(users) :
        (u # v /\ users[u].email # NoEmail) => users[u].email # users[v].email

\* call c takes its last step and returns this result
Returns(c, result) ==
    /\ c \in 1..Len(calls)
    /\ calls[c].pc # "done"
    /\ calls'[c].pc = "done" /\ calls'[c].result = result

\* C13: changeLeader goes on to its save only for the beacon's current
\* leader; for any other caller and for an unknown beacon it returns an error
\* and no stored beacon changes.  The save sets the beacon's leader to
\* newLeaderID and changes nothing else of any beacon: followers, location
\* and landmarks stay as they are.  A save that fails changes nothing.
C13_ChangeLeaderFrame ==
    [][/\ Starts("changeLeader")
            => /\ beacons' = beacons
               /\ Last.beacon = NoBeacon
                    => (Last.pc = "done" /\ Last.result = "UserInputError")
               /\ (Last.beacon # NoBeacon /\ beacons[Last.beacon].leader # Last.user)
                    => (Last.pc = "done" /\ Last.result = "Error")
               /\ (Last.beacon # NoBeacon /\ beacons[Last.beacon].leader = Last.user)
                    => Last.pc = "save"
       /\ \A c \in 1..Len(calls) :
            calls[c].op = "changeLeader"
            => /\ Returns(c, "ok")
                    => beacons' = [beacons EXCEPT ![calls[c].beacon] =
                                      [leader |-> calls[c].args.newLeaderID,
                                       shortcode |-> @.shortcode,
                                       location |-> @.location,
                                       followers |-> @.followers,
                                       landmarks |-> @.landmarks,
                                       expiresAt |-> @.expiresAt]]
               /\ Returns(c, "StoreError") => beacons' = beacons]_vars

C13_Witness ==
    \E c, d \in 1..Len(calls) :
        /\ calls[c].op = "changeLeader" /\ calls[c].result = "ok"
        /\ beacons[calls[c].beacon].leader = calls[c].args.newLeaderID
        /\ calls[c].args.newLeaderID \in Range(beacons[calls[c].beacon].followers)
        /\ calls[c].user \notin Range(beacons[calls[c].beacon].followers)
        /\ calls[d].op = "changeLeader" /\ calls[d].result = "Error"

RequiresUser == {"createBeacon", "joinBeacon", "createLandmark",
                 "updateBeaconLocation", "updateUserLocation", "changeLeader",
                 "beacon"}

\* the errors a resolver can answer a caller it does not admit with
AuthorizationErrors == {"AuthenticationError", "ForbiddenError"}

\* C14: an operation that requires a user, called without one, fails with an
\* authorization error, changes no stored user, beacon or landmark and
\* publishes no event.
C14_AnonymousRejected ==
    [][(\E c \in 1..Len(calls') :
           calls'[c].op \in RequiresUser /\ calls'[c].user = NoUser)
         => /\ users' = users /\ beacons' = beacons /\ landmarks' = landmarks
            /\ published' = published
            /\ \A c \in 1..Len(calls') :
                  (calls'[c].op \in RequiresUser /\ calls'[c].user = NoUser)
                  => /\ calls'[c].pc = "done"
                     /\ calls'[c].result \in AuthorizationErrors]_vars

\* C16: createLandmark goes on to create a landmark only for the leader or a
\* follower of the beacon; for any other caller and for an unknown beacon it
\* fails with a validation error and stores nothing.  A landmark is stored
\* with its creator, and its id is appended to that beacon's landmarks and
\* to nothing else.
C16_LandmarkByMembers ==
    [][/\ Starts("createLandmark")
            => /\ beacons' = beacons /\ landmarks' = landmarks
               /\ Last.beacon = NoBeacon
                    => (Last.pc = "done" /\ Last.result = "UserInputError")
               /\ (/\ Last.beacon # NoBeacon
                   /\ beacons[Last.beacon].leader # Last.user
                   /\ Last.user \notin Range(beacons[Last.beacon].followers))
                    => (Last.pc = "done" /\ Last.result = "UserInputError")
               /\ (/\ Last.beacon # NoBeacon
                   /\ \/ beacons[Last.beacon].leader = Last.user
                      \/ Last.user \in Range(beacons[Last.beacon].followers))
                    => Last.pc = "saveLandmark"
       /\ \A c \in 1..Len(calls) :
            calls[c].op = "createLandmark"
            => /\ (calls[c].pc = "saveLandmark" /\ calls'[c].pc = "saveBeacon")
                    => /\ landmarks' = Append(landmarks, [createdBy |-> calls[c].user])
                       /\ calls'[c].landmark = Len(landmarks')
                       /\ beacons' = beacons
               /\ Returns(c, "ok")
                    => /\ landmarks' = landmarks
                       /\ beacons' = [beacons EXCEPT ![calls[c].beacon].landmarks =
                                         Append(@, calls[c].landmark)]
               /\ Returns(c, "StoreError")
                    => (beacons' = beacons /\ landmarks' = landmarks)]_vars

C16_Witness ==
    \E c, d \in 1..Len(calls) :
        /\ calls[c].op = "createLandmark" /\ calls[c].result = "ok"
        /\ calls[c].user \in Range(beacons[calls[c].beacon].followers)
        /\ calls[c].landmark \in Range(beacons[calls[c].beacon].landmarks)
        /\ landmarks[calls[c].landmark].createdBy = calls[c].user
        /\ calls[d].op = "createLandmark" /\ calls[d].result = "UserInputError"
        /\ calls[d].beacon # NoBeacon

\* C15: nearbyBeacons returns, each once, exactly the stored beacons whose
\* expiresAt is not in the past and whose location is less than 1500 metres
\* from the query point.
C15_NearbyActiveOnly ==
    [][Starts("nearbyBeacons")
         => /\ Last.pc = "done" /\ Last.result = "ok"
            /\ Range(Last.nearby) =
                  {b \in 1..Len(beacons) :
                      /\ ~(beacons[b].expiresAt < now)
                      /\ getDistance(beacons[b].location, Last.args.location) < 1500}
            /\ Len(Last.nearby) = Cardinality(Range(Last.nearby))
            /\ beacons' = beacons]_vars

\* a query that found the new beacon and left out the expired one beside it
C15_Witness ==
    \E c \in 1..Len(calls) :
        /\ calls[c].op = "nearbyBeacons"
        /\ calls[c].nearby = <<2>>
        /\ getDistance(beacons[1].location, calls[c].args.location) < 1500
        /\ beacons[1].expiresAt < now

\* the topic each publishing mutation publishes on
TopicOfMutation == [joinBeacon |-> "BEACON_JOINED",
                    updateBeaconLocation |-> "BEACON_LOCATION",
                    updateUserLocation |-> "USER_LOCATION"]

\* C17: a joinBeacon, updateBeaconLocation or updateUserLocation call that
\* has returned success has published exactly one event, on its own topic
\* and with the id of its beacon; updateBeaconLocation has published by the
\* time it saves the beacon, updateUserLocation publishes only once the
\* caller's location is stored; createBeacon and changeLeader publish nothing.
C17_EventPerSuccess ==
    [][\A c \in 1..Len(calls') :
         LET events == {n \in 1..Len(published') : published'[n].call = c}
         IN  /\ calls'[c].op \in {"createBeacon", "changeLeader"} => events = {}
             /\ (calls'[c].op \in DOMAIN TopicOfMutation /\ calls'[c].result = "ok")
                  => \E n \in events :
                        /\ events = {n}
                        /\ published'[n].topic = TopicOfMutation[calls'[c].op]
                        /\ published'[n].beaconID = calls'[c].beacon
                        /\ calls'[c].beacon # NoBeacon
             /\ (/\ calls'[c].op = "updateBeaconLocation"
                 /\ c <= Len(calls) /\ calls'[c] # calls[c] /\ beacons' # beacons)
                  => (EventsOf(c) # {} /\ published' = published)
             /\ (/\ calls'[c].op = "updateUserLocation"
                 /\ events # {} /\ (c > Len(calls) \/ EventsOf(c) = {}))
                  => /\ c <= Len(calls)
                     /\ users'[calls'[c].user].location = calls'[c].args.location
                     /\ users' = [users EXCEPT ![calls[c].user].location =
                                                   calls[c].args.location]]_vars

\* two of the publishing mutations have succeeded, one event each
C17_Witness ==
    /\ Len(published) = 2
    /\ \E c, d \in 1..Len(calls) :
          /\ calls[c].op = "joinBeacon" /\ calls[c].result = "ok"
          /\ calls[d].op \in {"updateBeaconLocation", "updateUserLocation"}
          /\ calls[d].result = "ok"

\* C18: however joinBeacon calls of one user for one shortcode interleave, at
\* most one of them succeeds: the beacon's followers hold the user at most
\* once and at most one BEACON_JOINED event of that user is published for it.
C18_ConcurrentJoinOnce ==
    \A b \in 1..Len(beacons), u \in UserIds :
        /\ Count(u, beacons[b].followers) <= 1
        /\ Cardinality({n \in 1..Len(published) :
                          /\ published[n].topic = "BEACON_JOINED"
                          /\ published[n].beaconID = b
                          /\ published[n].user = u}) <= 1
        /\ Cardinality({c \in 1..Len(calls) :
                          /\ calls[c].op = "joinBeacon" /\ calls[c].result = "ok"
                          /\ calls[c].user = u /\ calls[c].beacon = b}) <= 1

\* C19: when no call is in progress, every beacon is exactly once among the
\* beacons of its leader and of each of its followers.
C19_MembershipBothSides ==
    (\A c \in 1..Len(calls) : calls[c].pc = "done")
    => \A b \in 1..Len(beacons), u \in UserIds :
          (beacons[b].leader = u \/ u \in Range(beacons[b].followers))
          => Count(b, users[u].beacons) = 1

\* C20: joinBeacon adds a follower only to a beacon whose expiresAt has not
\* passed, and when a beacon with the shortcode is active the call finds an
\* active one.
C20_JoinsActiveBeacon ==
    [][/\ \A b \in 1..Len(beacons) :
            beacons'[b].followers # beacons[b].followers
            => beacons[b].expiresAt >= now
       /\ (/\ Starts("joinBeacon")
           /\ \E b \in 1..Len(beacons) :
                 /\ beacons[b].shortcode = Last.args.shortcode
                 /\ beacons[b].expiresAt >= now)
            => /\ Last.beacon # NoBeacon
               /\ beacons[Last.beacon].expiresAt >= now]_vars

====
